---------------------------- MODULE Spec2Model ----------------------------
(***************************************************************************)
(* Model of the tic-tac-toe engine of src/tic-tac-toe.py (class TicTacToe, *)
(* get_player_move, play_game); src/tic_tac_toe_gui.py carries the same    *)
(* class.  The object's fields are the variables; every method is a pure   *)
(* operator from the object (a record "self") to the object after the call *)
(* and the value returned, and every action applies one method as a whole. *)
(***************************************************************************)
EXTENDS Integers, Sequences, FiniteSets, TLC

VARIABLES board, current_player, game_over, winner, moves_count,
          ai_enabled, ai_difficulty,
          frames,  \* the activations of minimax in progress, innermost last
          current_state, ai_thinking  \* the locals of main() of the GUI

fields == <<board, current_player, game_over, winner, moves_count,
            ai_enabled, ai_difficulty>>

gui == <<current_state, ai_thinking>>

vars == <<fields, frames, gui>>

(***************************************************************************)
(* Values.                                                                 *)
(***************************************************************************)
\* board size: range(3)
N == 3
Idx == 0..(N - 1)
\* ' ' is the empty cell
Empty == " "
\* Python's None for self.winner
None == "None"
\* Python's None for best_move: a value that is not a (row, col) pair
NoMove == <<>>
\* float('inf'): any integer above every score behaves the same under <, max, min
Inf == 1000
Difficulties == {"easy", "medium", "hard"}

\* [[' ' for _ in range(3)] for _ in range(3)]
EmptyBoard == [i \in Idx |-> [j \in Idx |-> Empty]]

\* the object: the fields of self as one record
Self ==
  [board |-> board, current_player |-> current_player, game_over |-> game_over,
   winner |-> winner, moves_count |-> moves_count,
   ai_enabled |-> ai_enabled, ai_difficulty |-> ai_difficulty]

\* TicTacToe.__init__
NewGame ==
  [board |-> EmptyBoard, current_player |-> "X", game_over |-> FALSE,
   winner |-> None, moves_count |-> 0,
   ai_enabled |-> FALSE, ai_difficulty |-> "medium"]

\* 'O' if self.current_player == 'X' else 'X'
Other(p) == IF p = "X" THEN "O" ELSE "X"

(***************************************************************************)
(* reset_game                                                              *)
(***************************************************************************)
\* reset_game without self.current_player = 'X'
reset_game_keeps_turn(self) ==
  [self EXCEPT !.board = EmptyBoard, !.game_over = FALSE, !.winner = None,
               !.moves_count = 0]

reset_game(self) ==
  [self EXCEPT !.board = EmptyBoard, !.current_player = "X",
               !.game_over = FALSE, !.winner = None, !.moves_count = 0]

(***************************************************************************)
(* check_win: does self.current_player hold a complete line                *)
(***************************************************************************)
\* row.count(player) == 3
RowWin(b, player) == \E i \in Idx : \A j \in Idx : b[i][j] = player
\* [board[row][col] for row in range(3)].count(player) == 3
ColWin(b, player) == \E j \in Idx : \A i \in Idx : b[i][j] = player
\* the two diagonals
DiagWin(b, player) ==
  \/ (b[0][0] = b[1][1] /\ b[1][1] = b[2][2] /\ b[2][2] = player)
  \/ (b[0][2] = b[1][1] /\ b[1][1] = b[2][0] /\ b[2][0] = player)

\* check_win without the column loop
check_win_no_columns(self) ==
  LET player == self.current_player
  IN  RowWin(self.board, player) \/ DiagWin(self.board, player)

check_win(self) ==
  LET player == self.current_player
  IN  RowWin(self.board, player) \/ ColWin(self.board, player)
        \/ DiagWin(self.board, player)

(***************************************************************************)
(* get_empty_cells, is_board_full                                          *)
(***************************************************************************)
\* for i in range(3): for j in range(3): the cells in row-major order
AllCells == [k \in 1..(N * N) |-> <<(k - 1) \div N, (k - 1) % N>>]

\* get_empty_cells with the two loops exchanged: column by column
get_empty_cells_column_major(self) ==
  SelectSeq([k \in 1..(N * N) |-> <<(k - 1) % N, (k - 1) \div N>>],
            LAMBDA cell : self.board[cell[1]][cell[2]] = Empty)

\* get_empty_cells with range(2) for the columns
get_empty_cells_two_columns(self) ==
  SelectSeq(AllCells, LAMBDA c : c[2] < 2 /\ self.board[c[1]][c[2]] = Empty)

get_empty_cells(self) ==
  SelectSeq(AllCells, LAMBDA cell : self.board[cell[1]][cell[2]] = Empty)

is_board_full(self) == self.moves_count = 9

(***************************************************************************)
(* make_move: the object after the call and the value returned             *)
(***************************************************************************)
\* place_mark with the full-board check ahead of the win check
place_mark_draw_first(self, row, col) ==
  LET placed == [self EXCEPT !.board[row][col] = self.current_player,
                             !.moves_count = @ + 1]
  IN  IF placed.moves_count = 9
      THEN [placed EXCEPT !.game_over = TRUE]
      ELSE IF check_win(placed)
      THEN [placed EXCEPT !.game_over = TRUE, !.winner = placed.current_player]
      ELSE [placed EXCEPT !.current_player = Other(placed.current_player)]

\* place_mark without the full-board check
place_mark_no_draw(self, row, col) ==
  LET placed == [self EXCEPT !.board[row][col] = self.current_player,
                             !.moves_count = @ + 1]
  IN  IF check_win(placed)
      THEN [placed EXCEPT !.game_over = TRUE, !.winner = placed.current_player]
      ELSE [placed EXCEPT !.current_player = Other(placed.current_player)]

\* place_mark that switches the player after a win or a draw as well
place_mark_toggles_at_end(self, row, col) ==
  LET placed == [self EXCEPT !.board[row][col] = self.current_player,
                             !.moves_count = @ + 1]
      next == Other(placed.current_player)
  IN  IF check_win(placed)
      THEN [placed EXCEPT !.game_over = TRUE, !.winner = placed.current_player,
                          !.current_player = next]
      ELSE IF placed.moves_count = 9
      THEN [placed EXCEPT !.game_over = TRUE, !.current_player = next]
      ELSE [placed EXCEPT !.current_player = next]

\* the placement of make_move once the call is accepted: the mark, the
\* count, then win check first, full-board check second, else the turn
place_mark(self, row, col) ==
  LET placed == [self EXCEPT !.board[row][col] = self.current_player,
                             !.moves_count = @ + 1]
  IN  IF check_win(placed)
      THEN [placed EXCEPT !.game_over = TRUE, !.winner = placed.current_player]
      ELSE IF placed.moves_count = 9
      THEN [placed EXCEPT !.game_over = TRUE]
      ELSE [placed EXCEPT !.current_player = Other(placed.current_player)]

\* make_move without the game_over test
make_move_no_over_test(self, row, col) ==
  IF self.board[row][col] # Empty THEN [self |-> self, ret |-> FALSE]
  ELSE [self |-> place_mark(self, row, col), ret |-> TRUE]

\* make_move that writes the cell before it tests game_over
make_move_late_test(self, row, col) ==
  IF self.board[row][col] # Empty THEN [self |-> self, ret |-> FALSE]
  ELSE IF self.game_over
  THEN [self |-> [self EXCEPT !.board[row][col] = self.current_player],
        ret |-> FALSE]
  ELSE [self |-> place_mark(self, row, col), ret |-> TRUE]

make_move(self, row, col) ==
  IF self.game_over THEN [self |-> self, ret |-> FALSE]
  ELSE IF self.board[row][col] # Empty THEN [self |-> self, ret |-> FALSE]
  ELSE [self |-> place_mark(self, row, col), ret |-> TRUE]

(***************************************************************************)
(* minimax                                                                 *)
(***************************************************************************)
\* max_depth with every tier cut off after one ply
max_depth_one_ply(difficulty) == 1

\* max_depth = {'easy': 1, 'medium': 3, 'hard': 9}; .get(difficulty, 3)
max_depth(difficulty) ==
  CASE difficulty = "easy" -> 1
    [] difficulty = "medium" -> 3
    [] difficulty = "hard" -> 9
    [] OTHER -> 3

\* try_move without moves_count += 1
try_move_no_count(self, row, col, mark) ==
  LET placed == [self EXCEPT !.board[row][col] = mark]
  IN  IF check_win(placed) THEN [placed EXCEPT !.winner = mark] ELSE placed

\* the speculative placement: board[row][col] = mark; moves_count += 1;
\* if check_win(): winner = mark
try_move(self, row, col, mark) ==
  LET placed == [self EXCEPT !.board[row][col] = mark, !.moves_count = @ + 1]
  IN  IF check_win(placed) THEN [placed EXCEPT !.winner = mark] ELSE placed

\* undo_move without moves_count -= 1
undo_move_keeps_count(self, row, col) ==
  [self EXCEPT !.board[row][col] = Empty, !.winner = None]

\* the rollback: board[row][col] = ' '; moves_count -= 1; winner = None
undo_move(self, row, col) ==
  [self EXCEPT !.board[row][col] = Empty, !.moves_count = @ - 1,
               !.winner = None]

Max(a, b) == IF a >= b THEN a ELSE b
Min(a, b) == IF a <= b THEN a ELSE b

\* is_leaf without the depth cutoff
is_leaf_no_cutoff(self, depth) ==
  \/ self.winner = "O"
  \/ self.winner = "X"
  \/ is_board_full(self)

\* is_leaf with the depth cutoff one level early
is_leaf_cut_early(self, depth) ==
  \/ self.winner = "O"
  \/ self.winner = "X"
  \/ is_board_full(self)
  \/ depth + 1 >= max_depth(self.ai_difficulty)

\* the tests at the head of minimax that return a score without searching:
\* a recorded winner, a full board, the depth cutoff
is_leaf(self, depth) ==
  \/ self.winner = "O"
  \/ self.winner = "X"
  \/ is_board_full(self)
  \/ depth >= max_depth(self.ai_difficulty)

\* leaf_score that rates O's win higher the later it comes
leaf_score_prefers_late_wins(self, depth) ==
  IF self.winner = "O" THEN depth + 1
  ELSE IF self.winner = "X" THEN depth - 10
  ELSE 0

\* the score those tests return
leaf_score(self, depth) ==
  IF self.winner = "O" THEN 10 - depth
  ELSE IF self.winner = "X" THEN depth - 10
  ELSE 0

\* max_update that also takes a later cell of equal score (>= for >)
max_update_takes_ties(alpha, beta, best_score, best_move, cell, score) ==
  LET better == score >= best_score
      score1 == IF better THEN score ELSE best_score
      alpha1 == Max(alpha, score1)
  IN  [best_score |-> score1, best_move |-> IF better THEN cell ELSE best_move,
       alpha |-> alpha1, beta |-> beta, stop |-> beta <= alpha1]

\* the maximizing branch after a child returned score for cell: "update best
\* score", "alpha-beta pruning"; stop is the break
max_update(alpha, beta, best_score, best_move, cell, score) ==
  LET better == score > best_score
      score1 == IF better THEN score ELSE best_score
      alpha1 == Max(alpha, score1)
  IN  [best_score |-> score1, best_move |-> IF better THEN cell ELSE best_move,
       alpha |-> alpha1, beta |-> beta, stop |-> beta <= alpha1]

\* min_update leaving the loop one point early
min_update_early_break(alpha, beta, best_score, best_move, cell, score) ==
  LET better == score < best_score
      score1 == IF better THEN score ELSE best_score
      beta1 == Min(beta, score1)
  IN  [best_score |-> score1, best_move |-> IF better THEN cell ELSE best_move,
       alpha |-> alpha, beta |-> beta1, stop |-> beta1 <= alpha + 1]

\* the same of the minimizing branch
min_update(alpha, beta, best_score, best_move, cell, score) ==
  LET better == score < best_score
      score1 == IF better THEN score ELSE best_score
      beta1 == Min(beta, score1)
  IN  [best_score |-> score1, best_move |-> IF better THEN cell ELSE best_move,
       alpha |-> alpha, beta |-> beta1, stop |-> beta1 <= alpha]

RECURSIVE minimax(_, _, _, _, _)
RECURSIVE max_loop(_, _, _, _, _, _, _, _, _)
RECURSIVE min_loop(_, _, _, _, _, _, _, _, _)

\* for cell in self.get_empty_cells(): ... of the maximizing branch, from the
\* i-th cell on: the object, best_score and best_move when the loop ends.
\* pruned is bookkeeping for the properties, not program state: whether a
\* "break" was taken in this loop or in a call below it.
max_loop(self, depth, cells, i, alpha, beta, best_score, best_move, pruned) ==
  IF i > Len(cells)
  THEN [self |-> self, best_score |-> best_score, best_move |-> best_move,
        pruned |-> pruned]
  ELSE
    LET cell == cells[i]
        result == minimax(try_move(self, cell[1], cell[2], "O"),
                          depth + 1, FALSE, alpha, beta)
        undone == undo_move(result.self, cell[1], cell[2])
        u == max_update(alpha, beta, best_score, best_move, cell, result.score)
    IN  IF u.stop
        THEN [self |-> undone, best_score |-> u.best_score,
              best_move |-> u.best_move, pruned |-> TRUE]
        ELSE max_loop(undone, depth, cells, i + 1, u.alpha, u.beta,
                      u.best_score, u.best_move, pruned \/ result.pruned)

\* the same loop of the minimizing branch
min_loop(self, depth, cells, i, alpha, beta, best_score, best_move, pruned) ==
  IF i > Len(cells)
  THEN [self |-> self, best_score |-> best_score, best_move |-> best_move,
        pruned |-> pruned]
  ELSE
    LET cell == cells[i]
        result == minimax(try_move(self, cell[1], cell[2], "X"),
                          depth + 1, TRUE, alpha, beta)
        undone == undo_move(result.self, cell[1], cell[2])
        u == min_update(alpha, beta, best_score, best_move, cell, result.score)
    IN  IF u.stop
        THEN [self |-> undone, best_score |-> u.best_score,
              best_move |-> u.best_move, pruned |-> TRUE]
        ELSE min_loop(undone, depth, cells, i + 1, u.alpha, u.beta,
                      u.best_score, u.best_move, pruned \/ result.pruned)

\* minimax returning without self.current_player = player_before
restore_player_skipped(self, player_before) == self

\* self.current_player = player_before
restore_player(self, player_before) ==
  [self EXCEPT !.current_player = player_before]

\* the dict returned (the 'move' key is present only after a loop) and the
\* object after the call
minimax(self, depth, is_maximizing, alpha, beta) ==
  IF is_leaf(self, depth)
  THEN [score |-> leaf_score(self, depth), self |-> self, pruned |-> FALSE]
  ELSE IF is_maximizing
  THEN LET player_before == self.current_player
           entered == [self EXCEPT !.current_player = "O"]
           r == max_loop(entered, depth, get_empty_cells(entered), 1,
                         alpha, beta, -Inf, NoMove, FALSE)
       IN  [score |-> r.best_score, move |-> r.best_move,
            self |-> restore_player(r.self, player_before),
            pruned |-> r.pruned]
  ELSE LET player_before == self.current_player
           entered == [self EXCEPT !.current_player = "X"]
           r == min_loop(entered, depth, get_empty_cells(entered), 1,
                         alpha, beta, Inf, NoMove, FALSE)
       IN  [score |-> r.best_score, move |-> r.best_move,
            self |-> restore_player(r.self, player_before),
            pruned |-> r.pruned]

(***************************************************************************)
(* The computer's move                                                     *)
(***************************************************************************)
\* ai_move_easy with random.choice(empty_cells) = the k-th empty cell
ai_move_easy(self, k) ==
  LET empty_cells == get_empty_cells(self)
  IN  IF Len(empty_cells) > 0
      THEN make_move(self, empty_cells[k][1], empty_cells[k][2]).self
      ELSE self

\* the values random.random() < 0.7 can take where ai_move draws it (medium)
OptimalDraws(self) ==
  IF self.ai_difficulty = "medium" THEN BOOLEAN ELSE {TRUE}

\* the indices random.choice can draw where ai_move reaches it with a
\* non-empty list; one dummy index otherwise
Choices(self, optimal) ==
  IF /\ \/ self.ai_difficulty = "easy"
        \/ (self.ai_difficulty = "medium" /\ ~optimal)
     /\ Len(get_empty_cells(self)) > 0
  THEN 1..Len(get_empty_cells(self))
  ELSE {1}

\* play_result giving the turn away when there is no move to play
play_result_passes_turn(self, result) ==
  IF "move" \in DOMAIN result /\ result.move # NoMove
  THEN make_move(self, result.move[1], result.move[2]).self
  ELSE [self EXCEPT !.current_player = Other(self.current_player)]

\* ai_move_hard once minimax has returned result, the object being self:
\* if 'move' in result and result['move']: self.make_move(row, col)
play_result(self, result) ==
  IF "move" \in DOMAIN result /\ result.move # NoMove
  THEN make_move(self, result.move[1], result.move[2]).self
  ELSE self

ai_move_hard(self) ==
  LET result == minimax(self, 0, TRUE, -Inf, Inf)
  IN  play_result(result.self, result)

\* random.random() < 0.7 is the input optimal
ai_move_medium(self, optimal, k) ==
  IF optimal THEN ai_move_hard(self) ELSE ai_move_easy(self, k)

ai_move(self, optimal, k) ==
  IF self.ai_difficulty = "easy" THEN ai_move_easy(self, k)
  ELSE IF self.ai_difficulty = "medium" THEN ai_move_medium(self, optimal, k)
  ELSE ai_move_hard(self)

(***************************************************************************)
(* Actions: one call of a method on the object                             *)
(***************************************************************************)
Set(self) ==
  /\ board' = self.board
  /\ current_player' = self.current_player
  /\ game_over' = self.game_over
  /\ winner' = self.winner
  /\ moves_count' = self.moves_count
  /\ ai_enabled' = self.ai_enabled
  /\ ai_difficulty' = self.ai_difficulty

Init ==
  /\ board = NewGame.board
  /\ current_player = NewGame.current_player
  /\ game_over = NewGame.game_over
  /\ winner = NewGame.winner
  /\ moves_count = NewGame.moves_count
  /\ ai_enabled = NewGame.ai_enabled
  /\ ai_difficulty = NewGame.ai_difficulty
  /\ frames = <<>>
  /\ current_state = "MENU"
  /\ ai_thinking = FALSE

\* no search is in progress, and none is started
NoSearch == frames = <<>> /\ UNCHANGED frames

\* the step is not one of main() of the GUI
NoGui == UNCHANGED gui

\* game.make_move(row, col)
MakeMove(row, col) == NoSearch /\ NoGui /\ Set(make_move(Self, row, col).self)

\* game.reset_game()
ResetGame == NoSearch /\ NoGui /\ Set(reset_game(Self))

\* game.ai_move(), with the two random draws as inputs
AiMove(optimal, k) == NoSearch /\ NoGui /\ Set(ai_move(Self, optimal, k))

\* the menu of play_game: choice '1'..'4' (any other choice is taken as '1')
select_mode(self, choice) ==
  CASE choice = 2 -> [self EXCEPT !.ai_enabled = TRUE, !.ai_difficulty = "easy"]
    [] choice = 3 -> [self EXCEPT !.ai_enabled = TRUE,
                                  !.ai_difficulty = "medium"]
    [] choice = 4 -> [self EXCEPT !.ai_enabled = TRUE, !.ai_difficulty = "hard"]
    [] OTHER -> [self EXCEPT !.ai_enabled = FALSE]

MenuChoices == 1..4

\* the game setup of play_game, run once on the object just constructed
SelectMode(choice) ==
  /\ NoSearch
  /\ NoGui
  /\ Self = NewGame
  /\ Set(select_mode(Self, choice))

\* the engine under any sequence of calls
Next ==
  \/ \E choice \in MenuChoices : SelectMode(choice)
  \/ \E row \in Idx, col \in Idx : MakeMove(row, col)
  \/ ResetGame
  \/ \E optimal \in OptimalDraws(Self) :
       \E k \in Choices(Self, optimal) : AiMove(optimal, k)

Spec == Init /\ [][Next]_vars

(***************************************************************************)
(* The console front-end: get_player_move and the loop of play_game        *)
(***************************************************************************)
\* the numbers a player may type for row and for col (1-based)
MaxInput == 4
Inputs == 0..MaxInput

\* row = int(parts[0]) - 1; col = int(parts[1]) - 1
parse_move(r, c) == <<r - 1, c - 1>>

\* 0 <= row < 3 and 0 <= col < 3
in_range(row, col) == 0 <= row /\ row < 3 /\ 0 <= col /\ col < 3

\* get_player_move on the input "r,c" of two numbers: the 1-based
\* conversion, the range check, then make_move
get_player_move(self, r, c) ==
  LET row == parse_move(r, c)[1]
      col == parse_move(r, c)[2]
  IN  IF ~in_range(row, col) THEN self
      ELSE make_move(self, row, col).self

\* one turn of the loop taken by the player
PlayerTurn(r, c) ==
  /\ ~game_over
  /\ ~(ai_enabled /\ current_player = "O")
  /\ NoSearch
  /\ NoGui
  /\ Set(get_player_move(Self, r, c))

\* one turn of the loop taken by the computer
AiTurn(optimal, k) ==
  /\ ~game_over
  /\ ai_enabled /\ current_player = "O"
  /\ AiMove(optimal, k)

\* "Play again? y" once the game is over
PlayAgain ==
  /\ game_over
  /\ ResetGame

PlayNext ==
  \/ \E choice \in MenuChoices : SelectMode(choice)
  \/ \E r \in Inputs, c \in Inputs : PlayerTurn(r, c)
  \/ \E optimal \in OptimalDraws(Self) :
       \E k \in Choices(Self, optimal) : AiTurn(optimal, k)
  \/ PlayAgain

PlaySpec == Init /\ [][PlayNext]_vars

(***************************************************************************)
(* The search one node at a time: the engine under any sequence of calls,  *)
(* with every minimax activation of ai_move_hard a frame of its locals and *)
(* the object mutated in place as the code mutates it.                     *)
(***************************************************************************)
\* the locals of an activation at its call; best_score, best_move,
\* player_before, cells and the loop index i are set when the loop is entered
Frame(depth, is_maximizing, alpha, beta) ==
  [pc |-> "entry", depth |-> depth, is_maximizing |-> is_maximizing,
   alpha |-> alpha, beta |-> beta, best_score |-> 0, best_move |-> NoMove,
   player_before |-> "X", cells |-> <<>>, i |-> 0]

Top == frames[Len(frames)]

\* 'O' in the maximizing branch, 'X' in the minimizing branch
MarkOf(is_maximizing) == IF is_maximizing THEN "O" ELSE "X"

\* ai_move reaches ai_move_hard, which calls minimax(0, True)
SearchCall ==
  /\ frames = <<>>
  /\ ai_difficulty # "easy"
  /\ frames' = <<Frame(0, TRUE, -Inf, Inf)>>
  /\ UNCHANGED <<fields, gui>>

\* ai_move reaches ai_move_easy (tier easy, or medium on its random draw)
AiMoveRandom(k) ==
  /\ NoSearch
  /\ NoGui
  /\ ai_difficulty # "hard"
  /\ Set(ai_move_easy(Self, k))

\* the innermost activation returns result, the object being self: its
\* caller undoes the placement, updates best_score, best_move, alpha or beta
\* and moves to the next cell or breaks; ai_move_hard plays the root's move
Return(result, self) ==
  IF Len(frames) = 1
  THEN /\ frames' = <<>>
       /\ NoGui
       /\ Set(play_result(self, result))
  ELSE LET n == Len(frames) - 1
           p == frames[n]
           cell == p.cells[p.i]
           u == IF p.is_maximizing
                THEN max_update(p.alpha, p.beta, p.best_score, p.best_move,
                                cell, result.score)
                ELSE min_update(p.alpha, p.beta, p.best_score, p.best_move,
                                cell, result.score)
       IN  /\ Set(undo_move(self, cell[1], cell[2]))
           /\ NoGui
           /\ frames' = [SubSeq(frames, 1, n) EXCEPT ![n] =
                [p EXCEPT !.best_score = u.best_score,
                          !.best_move = u.best_move,
                          !.alpha = u.alpha, !.beta = u.beta,
                          !.i = p.i + 1,
                          !.pc = IF u.stop THEN "break" ELSE "loop"]]

\* the head of minimax: a leaf returns its score, any other node saves
\* current_player, takes the turn of its mark and lists the empty cells
Enter ==
  /\ frames # <<>>
  /\ Top.pc = "entry"
  /\ IF is_leaf(Self, Top.depth)
     THEN Return([score |-> leaf_score(Self, Top.depth)], Self)
     ELSE LET entered ==
                [Self EXCEPT !.current_player = MarkOf(Top.is_maximizing)]
          IN  /\ Set(entered)
              /\ NoGui
              /\ frames' = [frames EXCEPT ![Len(frames)] =
                   [@ EXCEPT !.pc = "loop",
                             !.player_before = current_player,
                             !.cells = get_empty_cells(entered),
                             !.i = 1,
                             !.best_score =
                                IF Top.is_maximizing THEN -Inf ELSE Inf]]

\* one iteration of the loop up to the recursive call: the speculative
\* placement, the win check, the call one ply deeper for the other side
Descend ==
  /\ frames # <<>>
  /\ Top.pc = "loop"
  /\ Top.i <= Len(Top.cells)
  /\ NoGui
  /\ LET cell == Top.cells[Top.i]
     IN  Set(try_move(Self, cell[1], cell[2], MarkOf(Top.is_maximizing)))
  /\ frames' = Append(frames, Frame(Top.depth + 1, ~Top.is_maximizing,
                                    Top.alpha, Top.beta))

\* the loop is over (no cell left, or break): current_player is restored
\* and the dict with 'score' and 'move' returned
LoopEnd ==
  /\ frames # <<>>
  /\ \/ Top.pc = "break"
     \/ (Top.pc = "loop" /\ Top.i > Len(Top.cells))
  /\ Return([score |-> Top.best_score, move |-> Top.best_move],
            restore_player(Self, Top.player_before))

SearchNext ==
  \/ \E choice \in MenuChoices : SelectMode(choice)
  \/ \E row \in Idx, col \in Idx : MakeMove(row, col)
  \/ ResetGame
  \/ \E k \in Choices(Self, FALSE) : AiMoveRandom(k)
  \/ SearchCall
  \/ Enter
  \/ Descend
  \/ LoopEnd

SearchSpec == Init /\ [][SearchNext]_vars

(***************************************************************************)
(* The graphical front-end, src/tic_tac_toe_gui.py: handle_click, the menu *)
(* and the loop of main().  One step is one iteration of the loop with the *)
(* event it found (an iteration that finds several events acts as the      *)
(* iterations that find them one by one, and an iteration that finds an    *)
(* event when the thinking delay is over acts as the iteration of the      *)
(* event followed by an iteration without event: the event loop runs       *)
(* before the delay is tested).  Quitting ends the program and is no step. *)
(***************************************************************************)
SCREEN_WIDTH == 600
SCREEN_HEIGHT == 700
BOARD_SIZE == 450
CELL_SIZE == BOARD_SIZE \div 3

\* self.board_rect
board_rect ==
  [x |-> (SCREEN_WIDTH - BOARD_SIZE) \div 2,
   y |-> (SCREEN_HEIGHT - BOARD_SIZE) \div 2,
   width |-> BOARD_SIZE, height |-> BOARD_SIZE]

\* collidepoint with the right and bottom edges inside
collidepoint_closed(rect, pos) ==
  /\ rect.x <= pos[1] /\ pos[1] <= rect.x + rect.width
  /\ rect.y <= pos[2] /\ pos[2] <= rect.y + rect.height

\* pygame.Rect.collidepoint: the right and bottom edges are outside
collidepoint(rect, pos) ==
  /\ rect.x <= pos[1] /\ pos[1] < rect.x + rect.width
  /\ rect.y <= pos[2] /\ pos[2] < rect.y + rect.height

\* the (row, col) handle_click computes from the pixel (x, y)
click_cell(pos) ==
  <<(pos[2] - board_rect.y) \div CELL_SIZE,
    (pos[1] - board_rect.x) \div CELL_SIZE>>

\* handle_click: the object after the call and the value returned
handle_click(self, mouse_pos) ==
  IF self.game_over THEN [self |-> self, ret |-> FALSE]
  ELSE IF ~collidepoint(board_rect, mouse_pos)
  THEN [self |-> self, ret |-> FALSE]
  ELSE make_move(self, click_cell(mouse_pos)[1], click_cell(mouse_pos)[2])

\* GameMenu.create_buttons
button_width == 250
button_height == 50
center_x == SCREEN_WIDTH \div 2 - button_width \div 2

Button(y) ==
  [x |-> center_x, y |-> y, width |-> button_width, height |-> button_height]

human_vs_human_button == Button(150)
human_vs_ai_easy_button == Button(220)
human_vs_ai_medium_button == Button(290)
human_vs_ai_hard_button == Button(360)
quit_button == Button(430)

\* GameMenu.handle_events on a left click at mouse_pos
menu_click(mouse_pos) ==
  IF collidepoint(human_vs_human_button, mouse_pos)
  THEN [action |-> "start_game", ai_enabled |-> FALSE]
  ELSE IF collidepoint(human_vs_ai_easy_button, mouse_pos)
  THEN [action |-> "start_game", ai_enabled |-> TRUE, difficulty |-> "easy"]
  ELSE IF collidepoint(human_vs_ai_medium_button, mouse_pos)
  THEN [action |-> "start_game", ai_enabled |-> TRUE, difficulty |-> "medium"]
  ELSE IF collidepoint(human_vs_ai_hard_button, mouse_pos)
  THEN [action |-> "start_game", ai_enabled |-> TRUE, difficulty |-> "hard"]
  ELSE IF collidepoint(quit_button, mouse_pos)
  THEN [action |-> "quit"]
  ELSE [action |-> "none"]

\* the pixels clicked: every cell of the board (its edges included), every
\* button of the menu, and a pixel off each side of the board
ClickPositions ==
  ({75, 524} \X {125, 300, 574})
    \cup ({300} \X {125, 175, 245, 300, 385, 455, 574})
    \cup {<<74, 300>>, <<525, 300>>, <<300, 124>>, <<300, 575>>}

Events == {"none", "escape", "r", "click"}

\* the game and the locals of main() as one record
Main ==
  [self |-> Self, current_state |-> current_state, ai_thinking |-> ai_thinking]

\* on_click without the test of whose turn it is
on_click_any_turn(m, mouse_pos) ==
  IF m.current_state = "PLAYING" /\ ~m.ai_thinking
  THEN IF m.self.game_over
       THEN [m EXCEPT !.self = reset_game(m.self)]
       ELSE LET clicked == handle_click(m.self, mouse_pos).self
            IN  [m EXCEPT !.self = clicked,
                          !.ai_thinking =
                             IF /\ clicked.ai_enabled
                                /\ clicked.current_player = "O"
                                /\ ~clicked.game_over
                             THEN TRUE ELSE @]
  ELSE m

\* the branch of the event loop for a left click
on_click(m, mouse_pos) ==
  IF m.current_state = "PLAYING" /\ ~m.ai_thinking
  THEN IF m.self.game_over
       THEN [m EXCEPT !.self = reset_game(m.self)]
       ELSE IF m.self.current_player = "X" \/ ~m.self.ai_enabled
       THEN LET clicked == handle_click(m.self, mouse_pos).self
            IN  [m EXCEPT !.self = clicked,
                          !.ai_thinking =
                             IF /\ clicked.ai_enabled
                                /\ clicked.current_player = "O"
                                /\ ~clicked.game_over
                             THEN TRUE ELSE @]
       ELSE m
  ELSE m

\* "for event in events" on the one event of the iteration
on_event(m, event, mouse_pos) ==
  CASE event = "escape" ->
         IF m.current_state = "PLAYING" THEN [m EXCEPT !.current_state = "MENU"]
         ELSE m
    [] event = "r" ->
         IF m.current_state = "PLAYING"
         THEN [m EXCEPT !.self = reset_game(m.self)]
         ELSE m
    [] event = "click" -> on_click(m, mouse_pos)
    [] OTHER -> m

\* "handle game states": the menu acting on the click of the iteration, or
\* the computer's move once the thinking delay is over
on_state(m, event, mouse_pos, expired, optimal, k) ==
  IF m.current_state = "MENU"
  THEN LET result == IF event = "click" THEN menu_click(mouse_pos)
                     ELSE [action |-> "none"]
       IN  IF result.action = "start_game"
           THEN [m EXCEPT
                  !.self = IF result.ai_enabled
                           THEN [reset_game(m.self) EXCEPT
                                   !.ai_enabled = TRUE,
                                   !.ai_difficulty = result.difficulty]
                           ELSE [reset_game(m.self) EXCEPT
                                   !.ai_enabled = FALSE],
                  !.current_state = "PLAYING"]
           ELSE m
  ELSE IF m.ai_thinking /\ expired
       THEN [m EXCEPT !.self = ai_move(m.self, optimal, k),
                      !.ai_thinking = FALSE]
       ELSE m

\* one iteration of the loop of main(): expired says that
\* pygame.time.get_ticks() >= ai_move_time, which takes a delay begun in an
\* earlier iteration
MainLoop(event, mouse_pos, expired) ==
  LET m1 == on_event(Main, event, mouse_pos)
      fires == m1.current_state = "PLAYING" /\ ai_thinking /\ expired
  IN  /\ frames = <<>>
      /\ UNCHANGED frames
      /\ ~(event = "escape" /\ current_state = "MENU")
      /\ \E optimal \in IF fires THEN OptimalDraws(m1.self) ELSE {TRUE} :
           \E k \in IF fires THEN Choices(m1.self, optimal) ELSE {1} :
             LET m2 == on_state(m1, event, mouse_pos, ai_thinking /\ expired,
                                optimal, k)
             IN  /\ Set(m2.self)
                 /\ current_state' = m2.current_state
                 /\ ai_thinking' = m2.ai_thinking

\* the delay can be over only if ai_thinking was set before the iteration
Expiries == IF ai_thinking THEN BOOLEAN ELSE {FALSE}

\* an iteration that finds no event
Tick == \E expired \in Expiries : MainLoop("none", <<0, 0>>, expired)

\* an iteration that finds the ESC key
KeyEscape == MainLoop("escape", <<0, 0>>, FALSE)

\* an iteration that finds the R key
KeyR == MainLoop("r", <<0, 0>>, FALSE)

\* an iteration that finds a left click
Click(mouse_pos) == MainLoop("click", mouse_pos, FALSE)

GuiNext ==
  \/ Tick
  \/ KeyEscape
  \/ KeyR
  \/ \E mouse_pos \in ClickPositions : Click(mouse_pos)

GuiSpec == Init /\ [][GuiNext]_vars

TypeOK ==
  /\ board \in [Idx -> [Idx -> {Empty, "X", "O"}]]
  /\ current_player \in {"X", "O"}
  /\ game_over \in BOOLEAN
  /\ winner \in {None, "X", "O"}
  /\ moves_count \in 0..9
  /\ ai_enabled \in BOOLEAN
  /\ ai_difficulty \in Difficulties
  /\ Len(frames) <= 10
  /\ current_state \in {"MENU", "PLAYING"}
  /\ ai_thinking \in BOOLEAN

(***************************************************************************)
(* Properties                                                              *)
(***************************************************************************)
Marks == {"X", "O"}

\* the eight lines of the board, as sets of cells
Lines ==
  {{<<i, j>> : j \in Idx} : i \in Idx}
    \cup {{<<i, j>> : i \in Idx} : j \in Idx}
    \cup {{<<i, i>> : i \in Idx}, {<<i, (N - 1) - i>> : i \in Idx}}

\* mark m occupies all three cells of some row, column or diagonal of b
HasLine(b, m) == \E line \in Lines : \A cell \in line : b[cell[1]][cell[2]] = m

NonEmptyCells(b) ==
  Cardinality({cell \in Idx \X Idx : b[cell[1]][cell[2]] # Empty})

\* the root call of a search on the object as it stands
RootSearch == minimax(Self, 0, TRUE, -Inf, Inf)

HardMode == ai_enabled /\ ai_difficulty = "hard"

\* C1: with the computer on hard playing O second, X never wins: no state
\* of a game played through the loop of play_game has winner = 'X'.
C1_HardNeverLoses == HardMode => winner # "X"

\* a hard game the computer has won before the board filled up
C1_Witness ==
  HardMode /\ game_over /\ winner = "O" /\ moves_count < 9

\* C2: on every in-progress position, at every difficulty, the root call
\* minimax(0, True) leaves board, moves_count, current_player, winner and
\* game_over (and the mode) as they were before the call.
C2_SearchLeavesObject == ~game_over => RootSearch.self = Self

\* an in-progress position with X to move (so the root overwrites
\* current_player) on which the full-depth search took a pruning break
C2_Witness ==
  /\ ~game_over /\ RootSearch.pruned /\ "move" \in DOMAIN RootSearch
  /\ ai_difficulty = "hard" /\ current_player = "X"

\* C3: in every state, between calls and at every node inside a search,
\* moves_count is the number of non-empty cells of the board.
C3_CountMatchesBoard == moves_count = NonEmptyCells(board)

\* a node four plies deep in a search, reached after a rollback in its parent
C3_Witness ==
  /\ Len(frames) = 5
  /\ frames[4].i > 1
  /\ moves_count >= 5

\* the search taken node by node ends where ai_move_hard, taken as a whole,
\* ends (the two renderings of minimax agree)
SearchAgrees ==
  [][(Len(frames) = 1 /\ frames' = <<>>) =>
       Self' = ai_move_hard(IF frames[1].pc = "entry" THEN Self
                            ELSE restore_player(Self, frames[1].player_before))
    ]_vars

\* C4: a make_move that returns False leaves every field unchanged, and it
\* returns False exactly when the game is over or the cell is occupied.
C4_RejectedMoveNoEffect ==
  \A row \in Idx, col \in Idx :
    LET r == make_move(Self, row, col)
    IN  /\ (r.ret = FALSE) => (r.self = Self)
        /\ (r.ret = FALSE) <=> (game_over \/ board[row][col] # Empty)

\* a finished game with an empty cell left, and an occupied cell: both
\* rejections happen
C4_Witness ==
  /\ game_over /\ moves_count < 9
  /\ \E row \in Idx, col \in Idx :
       board[row][col] = Empty /\ ~make_move(Self, row, col).ret
  /\ \E row \in Idx, col \in Idx :
       board[row][col] # Empty /\ ~make_move(Self, row, col).ret

\* C5: winner = m only if m holds a complete line; a game over with winner
\* None only if the board is full and neither mark holds a line.
C5_OutcomeSound ==
  /\ \A m \in Marks : winner = m => HasLine(board, m)
  /\ (game_over /\ winner = None) =>
       /\ NonEmptyCells(board) = 9
       /\ \A m \in Marks : ~HasLine(board, m)

\* a game won by a column
C5_Witness ==
  /\ game_over /\ winner = "O"
  /\ \E j \in Idx : \A i \in Idx : board[i][j] = "O"

\* C6: between operations, game_over is False iff neither mark holds a
\* complete line and moves_count < 9.
C6_InProgressIff ==
  (game_over = FALSE) <=>
    ((\A m \in Marks : ~HasLine(board, m)) /\ moves_count < 9)

\* a drawn game: the board full, no line
C6_Witness ==
  game_over /\ moves_count = 9 /\ \A m \in Marks : ~HasLine(board, m)

\* C7: once the game is over, every make_move on any cell leaves game_over
\* True and the board as it is.
C7_TerminalStays ==
  [][\A row \in Idx, col \in Idx :
       (game_over /\ MakeMove(row, col)) => (game_over' /\ board' = board)]_vars

\* a won game with empty cells left to try
C7_Witness == game_over /\ winner = "X" /\ moves_count = 5

\* C8: a make_move on an empty cell of a game in progress that completes a
\* line of the mover returns True with game_over True and winner the mover,
\* also when it is the ninth placement.
C8_WinningMove ==
  \A row \in Idx, col \in Idx :
    (/\ ~game_over
     /\ board[row][col] = Empty
     /\ HasLine([board EXCEPT ![row][col] = current_player], current_player))
    => LET r == make_move(Self, row, col)
       IN  /\ r.ret = TRUE
           /\ r.self.game_over
           /\ r.self.winner = current_player
           /\ r.self.board = [board EXCEPT ![row][col] = current_player]

\* a game won by the ninth placement
C8_Witness == game_over /\ moves_count = 9 /\ winner = "X"

Center == <<1, 1>>
Corners == {<<0, 0>>, <<0, 2>>, <<2, 0>>, <<2, 2>>}

\* the position after X's opening placement, the computer on hard to reply
AfterOpening ==
  HardMode /\ ~game_over /\ moves_count = 1 /\ current_player = "O"

\* C9 as claimed: after every opening of X the first search returns the
\* center or a corner, with a score of 0 or more.
C9_OpeningReplyClaimed ==
  AfterOpening =>
    /\ "move" \in DOMAIN RootSearch
    /\ RootSearch.move \in Corners \cup {Center}
    /\ RootSearch.score >= 0

\* C9 as amended: the score is 0 or more and the move is the center or a
\* corner, except after the opening (2,1), answered by the edge cell (0,1).
C9_OpeningReply ==
  AfterOpening =>
    /\ "move" \in DOMAIN RootSearch
    /\ RootSearch.score >= 0
    /\ IF board[2][1] = "X" THEN RootSearch.move = <<0, 1>>
       ELSE RootSearch.move \in Corners \cup {Center}

\* the opening (2,1) has been played and the computer is to reply
C9_Witness == AfterOpening /\ board[2][1] = "X"

\* C10 as claimed: on every position with O to move, the search branch of
\* ai_move_medium plays the cell that ai_move_hard plays at tier hard.
C10_MediumPlaysAsHard ==
  (ai_difficulty = "medium" /\ ~game_over /\ current_player = "O") =>
    ai_move_medium(Self, TRUE, 1).board =
      ai_move_hard([Self EXCEPT !.ai_difficulty = "hard"]).board

(***************************************************************************)
(* C11: in the GUI, under every interleaving of clicks, the R key, ESC,    *)
(* menu selections and the end of the thinking delay, ai_move is invoked   *)
(* only when ai_enabled is True, current_player is 'O' and the game is not *)
(* over.  The iteration that invokes ai_move is the one that clears        *)
(* ai_thinking; it has no event, so ai_move acts on the object as the      *)
(* iteration found it.                                                     *)
(***************************************************************************)
AiMoveInvoked == ai_thinking /\ ~ai_thinking'

C11_AiMoveOnlyOnOsTurn ==
  [][AiMoveInvoked =>
       (ai_enabled /\ current_player = "O" /\ ~game_over)]_vars

(***************************************************************************)
(* C12: for every reachable position and each depth limit (1, 3, 9), the   *)
(* root call of minimax with alpha-beta pruning returns the score and the  *)
(* move of the same depth-limited minimax without the pruning breaks.      *)
(* plain_minimax is that reference: every child is searched, and the move  *)
(* is the first cell in the order of get_empty_cells with the best score.  *)
(***************************************************************************)
RECURSIVE plain_minimax(_, _, _)
RECURSIVE plain_loop(_, _, _, _, _, _, _)

\* the loop over the empty cells from the i-th on, never left early
plain_loop(self, depth, is_maximizing, cells, i, best_score, best_move) ==
  IF i > Len(cells)
  THEN [score |-> best_score, move |-> best_move]
  ELSE
    LET cell == cells[i]
        mark == IF is_maximizing THEN "O" ELSE "X"
        score == plain_minimax(try_move(self, cell[1], cell[2], mark),
                               depth + 1, ~is_maximizing).score
        better == IF is_maximizing THEN score > best_score
                  ELSE score < best_score
    IN  plain_loop(self, depth, is_maximizing, cells, i + 1,
                   IF better THEN score ELSE best_score,
                   IF better THEN cell ELSE best_move)

plain_minimax(self, depth, is_maximizing) ==
  IF is_leaf(self, depth)
  THEN [score |-> leaf_score(self, depth)]
  ELSE
    LET entered == [self EXCEPT !.current_player =
                                   IF is_maximizing THEN "O" ELSE "X"]
    IN  plain_loop(entered, depth, is_maximizing, get_empty_cells(entered), 1,
                   IF is_maximizing THEN -Inf ELSE Inf, NoMove)

PlainSearch == plain_minimax(Self, 0, TRUE)

C12_PruningKeepsResult ==
  LET pruning == RootSearch
      plain == PlainSearch
  IN  /\ pruning.score = plain.score
      /\ ("move" \in DOMAIN pruning) = ("move" \in DOMAIN plain)
      /\ "move" \in DOMAIN pruning => pruning.move = plain.move

\* a hard search from a position with four empty cells or more that took a
\* break
C12_Witness ==
  /\ ai_difficulty = "hard"
  /\ ~game_over
  /\ NonEmptyCells(board) <= 5
  /\ LET pruning == RootSearch
     IN  pruning.pruned /\ pruning.move = PlainSearch.move

(***************************************************************************)
(* C13: ai_move_easy only places a mark on a cell that was empty before    *)
(* the call, and on an in-progress board every empty cell is the outcome   *)
(* of one of the draws of random.choice.  k ranges over the draws.         *)
(***************************************************************************)
EasyDraws == 1..Len(get_empty_cells(Self))

Changed(b) == {cell \in Idx \X Idx : b[cell[1]][cell[2]] # board[cell[1]][cell[2]]}

C13_EasyPlaysAnyEmptyCell ==
  /\ \A k \in EasyDraws :
       \A cell \in Changed(ai_move_easy(Self, k).board) :
         /\ board[cell[1]][cell[2]] = Empty
         /\ ai_move_easy(Self, k).board[cell[1]][cell[2]] = current_player
  /\ ~game_over =>
       \A cell \in Idx \X Idx :
         board[cell[1]][cell[2]] = Empty =>
           \E k \in EasyDraws : Changed(ai_move_easy(Self, k).board) = {cell}

\* an in-progress board with marks on it where two draws give two cells, the
\* last cell of the board among them
C13_Witness ==
  /\ ~game_over
  /\ NonEmptyCells(board) = 3
  /\ board[2][2] = Empty
  /\ \E k \in EasyDraws : Changed(ai_move_easy(Self, k).board) = {<<2, 2>>}
  /\ \E k \in EasyDraws : Changed(ai_move_easy(Self, k).board) = {<<0, 0>>}

(***************************************************************************)
(* C14: ai_move, at any tier and for any outcome of its random draws, on a *)
(* board with no empty cell places no mark and leaves board, moves_count,  *)
(* current_player, winner and game_over (every field) as they were.  No    *)
(* draw of random.choice is made on the empty list: Choices has only its   *)
(* dummy index there.                                                      *)
(***************************************************************************)
C14_FullBoardNoMove ==
  NonEmptyCells(board) = N * N =>
    /\ get_empty_cells(Self) = <<>>
    /\ \A optimal \in BOOLEAN : Choices(Self, optimal) = {1}
    /\ \A optimal \in BOOLEAN : ai_move(Self, optimal, 1) = Self

\* a drawn game on a full board at the hard tier, and a won one at easy
C14_Witness ==
  /\ NonEmptyCells(board) = N * N
  /\ \/ ai_difficulty = "hard" /\ winner = None
     \/ ai_difficulty = "easy" /\ winner = "X"
  /\ ai_move(Self, TRUE, 1) = Self

(***************************************************************************)
(* C15, as claimed: the result of the root call minimax(0, True) lacks a   *)
(* move (no 'move' key, or None) only when the board is full.  A game won  *)
(* before the board filled refutes it: the winner tests return a bare      *)
(* score.                                                                  *)
(***************************************************************************)
LacksMove(result) == "move" \notin DOMAIN result \/ result.move = NoMove

C15_MoveUnlessFullClaimed ==
  LacksMove(RootSearch) => NonEmptyCells(board) = N * N

(***************************************************************************)
(* C15, amended: the result of the root call lacks a move exactly when the *)
(* game is over, a winner being recorded or the board being full; on every *)
(* in-progress board it carries a move, and the move is an empty cell.     *)
(***************************************************************************)
C15_MoveUnlessOver ==
  LET result == RootSearch
  IN  /\ LacksMove(result) <=> (winner # None \/ NonEmptyCells(board) = N * N)
      /\ LacksMove(result) <=> game_over
      /\ ~LacksMove(result) =>
           /\ result.move \in Idx \X Idx
           /\ board[result.move[1]][result.move[2]] = Empty

\* a game won with cells left, on which the root call returns no move
C15_Witness ==
  /\ winner = "X"
  /\ NonEmptyCells(board) < N * N
  /\ ai_difficulty = "easy"
  /\ LacksMove(RootSearch)

(***************************************************************************)
(* C16: from any reachable state, in progress, won or drawn, reset_game    *)
(* yields the initial game state (nine empty cells, moves_count 0,         *)
(* current_player 'X', game_over False, winner None) and leaves ai_enabled *)
(* and ai_difficulty as they were.                                         *)
(***************************************************************************)
C16_ResetRestoresStart ==
  LET after == reset_game(Self)
  IN  /\ \A row, col \in Idx : after.board[row][col] = Empty
      /\ after.moves_count = 0
      /\ after.current_player = "X"
      /\ after.game_over = FALSE
      /\ after.winner = None
      /\ after.ai_enabled = ai_enabled
      /\ after.ai_difficulty = ai_difficulty

\* a game against the computer that O has won, and its reset
C16_Witness ==
  /\ game_over /\ winner = "O" /\ current_player = "O"
  /\ ai_enabled /\ ai_difficulty = "hard"
  /\ reset_game(Self) = [NewGame EXCEPT !.ai_enabled = TRUE,
                                        !.ai_difficulty = "hard"]

(***************************************************************************)
(* C17, as claimed: current_player toggles after every make_move call that *)
(* returns True.  The calls that return True are the steps that place a    *)
(* mark, a human's or the computer's; the placement that wins or fills the *)
(* board refutes the claim.                                                *)
(***************************************************************************)
MarkPlaced == moves_count' = moves_count + 1

C17_TurnTogglesClaimed ==
  [][MarkPlaced => current_player' = Other(current_player)]_vars

(***************************************************************************)
(* C17, amended: after a make_move call that returns True current_player   *)
(* has toggled if the game is still in progress, and is still the mark     *)
(* just placed if the call ended the game by a win or a draw.  A call that *)
(* returns False places nothing.                                           *)
(***************************************************************************)
C17_TurnTogglesWhileInProgress ==
  [][/\ MarkPlaced =>
          current_player' = IF game_over' THEN current_player
                            ELSE Other(current_player)
     /\ \A row, col \in Idx :
          MakeMove(row, col) => (make_move(Self, row, col).ret <=> MarkPlaced)
    ]_vars

\* X has just won with its fourth mark and is still the current player
C17_Witness ==
  game_over /\ winner = "X" /\ current_player = "X" /\ moves_count = 7

(***************************************************************************)
(* C18: a row or column outside 0..2 never reaches the board.  The console *)
(* calls make_move with the typed numbers less one, and only when both are *)
(* in 0..2; the GUI calls it with the cell of the pixel, and only for a    *)
(* pixel of board_rect, whose cell is in 0..2.  Any other input leaves the *)
(* game as it was.  EdgePixels are the corners of the window and the two   *)
(* pixels on either side of every grid line of the board.                  *)
(***************************************************************************)
EdgePixels ==
  {0, 74, 75, 224, 225, 374, 375, 524, 525, 599}
    \X {0, 124, 125, 274, 275, 424, 425, 574, 575, 699}

C18_ConsoleInRange ==
  \A r, c \in Inputs :
    LET cell == parse_move(r, c)
    IN  /\ in_range(cell[1], cell[2]) <=> cell \in Idx \X Idx
        /\ IF cell \in Idx \X Idx
           THEN get_player_move(Self, r, c) =
                  make_move(Self, cell[1], cell[2]).self
           ELSE get_player_move(Self, r, c) = Self

C18_GuiInRange ==
  \A mouse_pos \in EdgePixels \cup ClickPositions :
    IF collidepoint(board_rect, mouse_pos)
    THEN /\ click_cell(mouse_pos) \in Idx \X Idx
         /\ handle_click(Self, mouse_pos) =
              IF game_over THEN [self |-> Self, ret |-> FALSE]
              ELSE make_move(Self, click_cell(mouse_pos)[1],
                             click_cell(mouse_pos)[2])
    ELSE handle_click(Self, mouse_pos).self = Self

C18_OutOfRangeRejected == C18_ConsoleInRange /\ C18_GuiInRange

\* an in-progress game where the inputs 0 and 4 and the pixels just off the
\* board change nothing while the last row, column and pixel of the board
\* place a mark
C18_Witness ==
  /\ ~game_over /\ moves_count = 2 /\ board[2][2] = Empty
  /\ get_player_move(Self, 0, 2) = Self
  /\ get_player_move(Self, 2, MaxInput) = Self
  /\ get_player_move(Self, 3, 3).board[2][2] = current_player
  /\ handle_click(Self, <<525, 300>>).self = Self
  /\ handle_click(Self, <<300, 575>>).self = Self
  /\ handle_click(Self, <<524, 574>>).self.board[2][2] = current_player

(***************************************************************************)
(* C19: every root call of minimax terminates; each recursive call runs on *)
(* a board with exactly one fewer empty cell than its caller; the depth of *)
(* the recursion never exceeds min(depth limit of the tier, number of      *)
(* empty cells at the root), hence never exceeds 9.  Termination is by a   *)
(* rank that every step of a search lowers: the work left in each          *)
(* activation, the outermost first, in the lexicographic order, which is   *)
(* well-founded on sequences of bounded length over bounded naturals.      *)
(***************************************************************************)
EmptyNow == N * N - NonEmptyCells(board)

\* the number of empty cells the j-th activation was called on: the length
\* of the list it took from get_empty_cells, or the board as it is if it is
\* still at its head
EmptyAt(j) ==
  IF frames[j].pc = "entry" THEN EmptyNow ELSE Len(frames[j].cells)

\* the depth the innermost activation runs at
Depth == Len(frames) - 1

SearchShrinks ==
  /\ \A j \in 1..Len(frames) : frames[j].depth = j - 1
  /\ \A j \in 2..Len(frames) : EmptyAt(j) = EmptyAt(j - 1) - 1
  /\ frames # <<>> =>
       /\ Depth <= max_depth(ai_difficulty)
       /\ Depth <= EmptyAt(1)
       /\ Depth <= N * N

\* the work left in the j-th activation: three per cell still to search,
\* less one while its call for the current cell is in progress, and nothing
\* after a break
Work(j) ==
  LET f == frames[j]
      left == IF f.i > Len(f.cells) THEN 0 ELSE Len(f.cells) - f.i + 1
  IN  CASE f.pc = "entry" -> 3 * N * N + 3
        [] f.pc = "break" -> 0
        [] OTHER -> 3 * left + (IF j = Len(frames) THEN 2 ELSE 1)

Rank == [j \in 1..Len(frames) |-> Work(j)]

\* a comes before b in the lexicographic order
LexLess(a, b) ==
  \E k \in 1..Min(Len(a), Len(b)) :
    a[k] < b[k] /\ \A j \in 1..(k - 1) : a[j] = b[j]

SearchStep == frames # <<>> /\ frames' # frames

C19_SearchTerminates ==
  [][/\ SearchShrinks'
     /\ (SearchStep /\ frames' # <<>>) => LexLess(Rank', Rank)
    ]_vars

\* a hard search from a board with seven empty cells that has gone as deep
\* as the cells allow
C19_Witness ==
  /\ ai_difficulty = "hard"
  /\ Len(frames) = 8
  /\ EmptyAt(1) = 7
  /\ Top.pc = "entry"
  /\ EmptyNow = 0

(***************************************************************************)
(* C20: at every node of a search the win check after a speculative        *)
(* placement is evaluated for the mark just placed: while a node is in its *)
(* loop, before its first placement and after each child has returned,     *)
(* current_player is the node's mark.  On entry to a recursive call winner *)
(* is non-None if and only if the placement made immediately before        *)
(* completed a line, and it is then the mark placed.  No win flag set in   *)
(* one branch is visible in a sibling branch: winner is None whenever a    *)
(* node is in its loop or leaves it.                                       *)
(***************************************************************************)
InLoop == frames # <<>> /\ Top.pc \in {"loop", "break"}

\* the innermost activation has just been called by a node's loop
JustCalled == Len(frames) >= 2 /\ Top.pc = "entry"

Caller == frames[Len(frames) - 1]

PlacedCell == Caller.cells[Caller.i]

BeforePlacement == [board EXCEPT ![PlacedCell[1]][PlacedCell[2]] = Empty]

C20_WinFlagTransient ==
  /\ InLoop =>
       /\ current_player = MarkOf(Top.is_maximizing)
       /\ winner = None
  /\ JustCalled =>
       LET mark == MarkOf(Caller.is_maximizing)
       IN  /\ current_player = mark
           /\ board[PlacedCell[1]][PlacedCell[2]] = mark
           /\ \A m \in Marks : ~HasLine(BeforePlacement, m)
           /\ winner # None <=> HasLine(board, mark)
           /\ winner # None => winner = mark

\* a call entered with X's win recorded, in a loop whose earlier branches
\* have returned, below a node whose own placement was O's
C20_Witness ==
  /\ JustCalled
  /\ Len(frames) >= 3
  /\ winner = "X"
  /\ Caller.i > 1
  /\ HasLine(board, "X")

(***************************************************************************)
(* C21: among the first-level moves that achieve the best root score,      *)
(* minimax returns the one that comes first in row-major order of the      *)
(* empty cells.  The score of a first-level move is the value of the       *)
(* position after it, searched without breaks from depth 1 with X to move. *)
(***************************************************************************)
RowMajor(cell) == N * cell[1] + cell[2]

EmptyCellSet == {cell \in Idx \X Idx : board[cell[1]][cell[2]] = Empty}

FirstLevelScore(cell) ==
  plain_minimax(try_move([Self EXCEPT !.current_player = "O"],
                         cell[1], cell[2], "O"),
                1, FALSE).score

C21_FirstBestInRowMajor ==
  ~game_over =>
    LET result == RootSearch
    IN  /\ result.move \in EmptyCellSet
        /\ \A cell \in EmptyCellSet :
             LET score == FirstLevelScore(cell)
             IN  /\ score <= result.score
                 /\ cell = result.move => score = result.score
                 /\ score = result.score =>
                      RowMajor(result.move) <= RowMajor(cell)

\* X holds the center at the hard tier: the corner (0,0) is returned, and
\* the corner (0,2) has the same score
C21_Witness ==
  /\ ~game_over
  /\ ai_difficulty = "hard"
  /\ moves_count = 1
  /\ board[1][1] = "X"
  /\ LET result == RootSearch
     IN  /\ result.move = <<0, 0>>
         /\ FirstLevelScore(<<0, 2>>) = result.score

(***************************************************************************)
(* C22: whenever it is O's turn in an in-progress game and some empty cell *)
(* completes a line of O, the search-based move (tier medium on its        *)
(* optimal draw, or hard: depth limit 3 or 9) returns score 9 and plays a  *)
(* cell that wins immediately: the game ends on that move with winner O.   *)
(***************************************************************************)
WithMark(cell, m) == [board EXCEPT ![cell[1]][cell[2]] = m]

WinningCells(m) == {cell \in EmptyCellSet : HasLine(WithMark(cell, m), m)}

OCanWinNow ==
  /\ ~game_over
  /\ current_player = "O"
  /\ ai_difficulty \in {"medium", "hard"}
  /\ WinningCells("O") # {}

C22_ImmediateWinTaken ==
  OCanWinNow =>
    LET result == RootSearch
        after == ai_move(Self, TRUE, 1)
    IN  /\ result.score = 9
        /\ result.move \in WinningCells("O")
        /\ after.board = WithMark(result.move, "O")
        /\ after.game_over
        /\ after.winner = "O"

\* the hard tier after X's third mark: O can win at once, and X threatens
\* a line of its own
C22_Witness ==
  /\ OCanWinNow
  /\ ai_difficulty = "hard"
  /\ moves_count = 5
  /\ WinningCells("X") # {}
  /\ ai_move(Self, TRUE, 1).winner = "O"

(***************************************************************************)
(* C23: in the GUI in human-vs-computer mode no state is reachable in      *)
(* which the game is in progress but no mark can be placed without a       *)
(* reset: whenever the game is in progress with O to move a computer move  *)
(* is pending (ai_thinking), and whenever X is to move a click on an empty *)
(* cell is accepted.  Where the first part fails the board is dead: the    *)
(* click branch skips handle_click for O's turn, and without ai_thinking   *)
(* no iteration calls ai_move.                                             *)
(***************************************************************************)
Playing == current_state = "PLAYING" /\ ai_enabled /\ ~game_over

\* a pixel in the middle of the cell
CellPixel(cell) ==
  <<board_rect.x + cell[2] * CELL_SIZE + CELL_SIZE \div 2,
    board_rect.y + cell[1] * CELL_SIZE + CELL_SIZE \div 2>>

ClickAccepted(cell) ==
  on_click(Main, CellPixel(cell)).self.board[cell[1]][cell[2]] # Empty

C23_NoStuckState ==
  /\ (Playing /\ current_player = "O") => ai_thinking
  /\ (Playing /\ current_player = "X") =>
       \A cell \in EmptyCellSet : ClickAccepted(cell)

(***************************************************************************)
(* C24: in every state reachable by make_move, ai_move and reset_game the  *)
(* number of X marks minus the number of O marks is 0 or 1, and while the  *)
(* game is in progress current_player is 'X' exactly when the two counts   *)
(* are equal.                                                              *)
(***************************************************************************)
Count(m) == Cardinality({cell \in Idx \X Idx : board[cell[1]][cell[2]] = m})

C24_TurnParity ==
  /\ Count("X") - Count("O") \in {0, 1}
  /\ ~game_over => (current_player = "X" <=> Count("X") = Count("O"))

\* X has placed its third mark against the hard computer, whose answer is
\* the third O
C24_Witness ==
  /\ ai_enabled /\ ai_difficulty = "hard" /\ ~game_over
  /\ Count("X") = 3 /\ Count("O") = 2 /\ current_player = "O"
  /\ LET after == ai_move(Self, TRUE, 1)
     IN  Cardinality({cell \in Idx \X Idx :
                        after.board[cell[1]][cell[2]] = "O"}) = 3

(***************************************************************************)
(* C25: in human-vs-computer mode no human input, a console entry or a GUI *)
(* click on the board, places a mark while current_player is 'O': every    *)
(* mark placed through human input is an X.                                *)
(***************************************************************************)
HumanInput ==
  \/ \E r, c \in Inputs : PlayerTurn(r, c)
  \/ \E mouse_pos \in ClickPositions : Click(mouse_pos)

\* the marks the step has written on empty cells
NewMarks ==
  {board'[cell[1]][cell[2]] :
     cell \in {e \in EmptyCellSet : board'[e[1]][e[2]] # Empty}}

C25_HumanPlacesOnlyX ==
  [][(HumanInput /\ ai_enabled /\ NewMarks # {}) =>
       (current_player = "X" /\ NewMarks = {"X"})]_vars

\* a click has just placed the human's second X against the computer, whose
\* answer is pending
C25_Witness ==
  /\ current_state = "PLAYING" /\ ai_enabled /\ ai_thinking
  /\ ~game_over /\ current_player = "O"
  /\ Count("X") = 2 /\ Count("O") = 1

=============================================================================
